---- MODULE Spec2Model ----
(***************************************************************************)
(* Model of scripts/build.py: the command-line build orchestrator.         *)
(*                                                                         *)
(* A Python string is modelled as a sequence of chunks (TLA+ strings), so  *)
(* that string concatenation is sequence concatenation and '' is <<>>.     *)
(* An option token is split into characters where getopt looks at          *)
(* characters: '-v' is <<"-","v">>, '--cl=A' is <<"-","-","cl","=","A">>.  *)
(* subprocess.run is modelled for an executable that launches and          *)
(* terminates with some return code.                                       *)
(***************************************************************************)
EXTENDS Integers, Sequences, FiniteSets, TLC

VARIABLES argv, FS, pc, opts, oi, vcpkg_toolchain, cl_c, cl_cpp,
          ti, cmake_bin, tests_bin, running, invoked, returned,
          checked, out, exitStatus

vars == <<argv, FS, pc, opts, oi, vcpkg_toolchain, cl_c, cl_cpp,
          ti, cmake_bin, tests_bin, running, invoked, returned,
          checked, out, exitStatus>>

\* ---------------------------------------------------------------- bounds
MaxArgs == 3
MaxRet == 1
MaxSig == 1

\* return codes of subprocess.run: -N (killed by signal N), 0, 1..MaxRet
RetCodes == (0 - MaxSig)..MaxRet

\* ------------------------------------------------------- input universe
Tokens ==
    { <<"-","h">>, <<"-","v">>, <<"-","c">>, <<"-","x">>, <<"-","-">>,
      <<"A">>, <<"B">>,
      <<"-","-","vcpkg","=","A">>, <<"-","-","vcpkg","=","B">>,
      <<"-","-","cl","=","A">>, <<"-","-","cl">>, <<"-","-","bogus">>,
      <<"-","v","A">> }

ArgvSet == UNION { [1..n -> Tokens] : n \in 0..MaxArgs }

\* the derived files of base path 'A' may or may not exist; nothing else does
FileUniverse ==
    { <<"A", "/vcpkg/scripts/buildsystems/vcpkg.cmake">>,
      <<"A", "/clang">>, <<"A", "/clang++">> }

\* ------------------------------------------------------ getopt.getopt
shortopts == <<"h", "v", ":", "c", ":">>
longopts == << <<"vcpkg", "=">>, <<"cl", "=">> >>

GetoptError == [err |-> TRUE, opts |-> <<>>, args |-> <<>>]

IsPrefix(s, t) == Len(s) <= Len(t) /\ SubSeq(t, 1, Len(s)) = s

\* position of opt in shortopts (0 when not an option letter)
short_index(opt) ==
    IF \E i \in 1..Len(shortopts) : shortopts[i] = opt /\ opt # ":"
    THEN CHOOSE i \in 1..Len(shortopts) : shortopts[i] = opt
    ELSE 0

short_has_arg(opt) ==
    LET i == short_index(opt)
    IN  i < Len(shortopts) /\ shortopts[i + 1] = ":"

\* the long options that opt abbreviates
possibilities(opt) ==
    { i \in 1..Len(longopts) : IsPrefix(opt, longopts[i]) }

\* [ok, has_arg, opt] as long_has_args computes it
long_has_args(opt) ==
    LET poss == possibilities(opt)
    IN  IF poss = {} THEN [ok |-> FALSE, has_arg |-> FALSE, opt |-> opt]
        ELSE IF \E i \in poss : longopts[i] = opt
             THEN [ok |-> TRUE, has_arg |-> FALSE, opt |-> opt]
        ELSE IF \E i \in poss : longopts[i] = opt \o <<"=">>
             THEN [ok |-> TRUE, has_arg |-> TRUE, opt |-> opt]
        ELSE IF Cardinality(poss) > 1
             THEN [ok |-> FALSE, has_arg |-> FALSE, opt |-> opt]
        ELSE LET m == longopts[CHOOSE i \in poss : TRUE]
                 ha == m[Len(m)] = "="
             IN  [ok |-> TRUE, has_arg |-> ha,
                  opt |-> IF ha THEN SubSeq(m, 1, Len(m) - 1) ELSE m]

RECURSIVE getopt(_, _)
RECURSIVE do_shorts(_, _, _)

do_longs(os, opt0, args) ==
    LET hasEq  == \E i \in 1..Len(opt0) : opt0[i] = "="
        eq     == IF hasEq THEN CHOOSE i \in 1..Len(opt0) :
                         opt0[i] = "=" /\ \A j \in 1..(i - 1) : opt0[j] # "="
                  ELSE 0
        name   == IF hasEq THEN SubSeq(opt0, 1, eq - 1) ELSE opt0
        optarg == IF hasEq THEN SubSeq(opt0, eq + 1, Len(opt0)) ELSE <<>>
        r      == long_has_args(name)
    IN  IF ~r.ok THEN GetoptError
        ELSE IF r.has_arg
             THEN IF ~hasEq
                  THEN IF args = <<>> THEN GetoptError
                       ELSE getopt(Tail(args),
                                   Append(os, << <<"-", "-">> \o r.opt, args[1] >>))
                  ELSE getopt(args, Append(os, << <<"-", "-">> \o r.opt, optarg >>))
        ELSE IF hasEq THEN GetoptError
        ELSE getopt(args, Append(os, << <<"-", "-">> \o r.opt, <<>> >>))

do_shorts(os, optstring, args) ==
    IF optstring = <<>> THEN getopt(args, os)
    ELSE LET opt  == optstring[1]
             rest == Tail(optstring)
         IN  IF short_index(opt) = 0 THEN GetoptError
             ELSE IF short_has_arg(opt)
                  THEN IF rest = <<>>
                       THEN IF args = <<>> THEN GetoptError
                            ELSE getopt(Tail(args),
                                        Append(os, << <<"-", opt>>, args[1] >>))
                       ELSE getopt(args, Append(os, << <<"-", opt>>, rest >>))
             ELSE do_shorts(Append(os, << <<"-", opt>>, <<>> >>), rest, args)

\* getopt.getopt(args, "hv:c:", ["vcpkg=", "cl="]) with os the options so far
getopt(args, os) ==
    IF args = <<>> \/ args[1][1] # "-" \/ args[1] = <<"-">>
    THEN [err |-> FALSE, opts |-> os, args |-> args]
    ELSE IF args[1] = <<"-", "-">>
         THEN [err |-> FALSE, opts |-> os, args |-> Tail(args)]
    ELSE IF args[1][2] = "-"
         THEN do_longs(os, SubSeq(args[1], 3, Len(args[1])), Tail(args))
    ELSE do_shorts(os, Tail(args[1]), Tail(args))

\* ------------------------------------------------------------ helpers
isfile(p) == p \in FS

targets == [Release |-> <<"../build/release">>, Debug |-> <<"../build/debug">>]

\* iteration order of the dict literal
targetOrder == <<"Release", "Debug">>

usage_error == <<"build.py -v <vcpkg install path> -c <clang compiler binaries path>">>
usage_help == <<"build.py -v <vcpkg toolchain cmake file> -c <clang compiler binaries path>">>

not_found(p) == p \o <<" could not be found">>
cmake_failed(rc) == <<"CMake returned ", ToString(rc), " and can not proceed">>
\* variant: the announcement names the output directory
running_tests_dir(t) == <<"Running ">> \o targets[t] \o <<" tests...">>

running_tests(t) == <<"Running ", t, " tests...">>
tests_failed(t) == targets[t] \o <<" tests failed">>

\* variant: the two compiler paths are passed the wrong way round
params_swapped(t) ==
    << <<"cmake">>, <<"-DCMAKE_BUILD_TYPE=", t>>, <<"-DCMAKE_MAKE_PROGRAM=ninja">>,
       <<"-DCMAKE_C_COMPILER=">> \o cl_cpp, <<"-DCMAKE_CXX_COMPILER=">> \o cl_c,
       <<"-G">>, <<"Ninja">>, <<"-DCMAKE_TOOLCHAIN_FILE=">> \o vcpkg_toolchain,
       <<"-S">>, <<"..">>, <<"-B">>, targets[t] >>

params(t) ==
    << <<"cmake">>, <<"-DCMAKE_BUILD_TYPE=", t>>, <<"-DCMAKE_MAKE_PROGRAM=ninja">>,
       <<"-DCMAKE_C_COMPILER=">> \o cl_c, <<"-DCMAKE_CXX_COMPILER=">> \o cl_cpp,
       <<"-G">>, <<"Ninja">>, <<"-DCMAKE_TOOLCHAIN_FILE=">> \o vcpkg_toolchain,
       <<"-S">>, <<"..">>, <<"-B">>, targets[t] >>

\* variant: the build command always names the Release directory
compile_params_release(t) ==
    << <<"cmake">>, <<"--build">>, targets["Release"], <<"--target">>,
       <<"mempool">>, <<"memtests">>, <<"--">>, <<"-j">>, <<"8">> >>

compile_params(t) ==
    << <<"cmake">>, <<"--build">>, targets[t], <<"--target">>, <<"mempool">>,
       <<"memtests">>, <<"--">>, <<"-j">>, <<"8">> >>

run_tests(t) == << targets[t] \o <<"/test/memtests">> >>

\* sys.exit / exit: the process ends with the given status
Exit(status) == pc' = "done" /\ exitStatus' = status

\* subprocess.run launches cmd and blocks
Launch(t, step, cmd) ==
    /\ running' = TRUE
    /\ invoked' = Append(invoked, [cfg |-> t, step |-> step, cmd |-> cmd])

\* ---------------------------------------------------------------- Init
Init ==
    /\ argv \in ArgvSet
    /\ FS \in SUBSET FileUniverse
    /\ pc = "getopt"
    /\ opts = <<>>
    /\ oi = 1
    /\ vcpkg_toolchain = <<>>
    /\ cl_c = <<>>
    /\ cl_cpp = <<>>
    /\ ti = 1
    /\ cmake_bin = 0
    /\ tests_bin = 0
    /\ running = FALSE
    /\ invoked = <<>>
    /\ returned = <<>>
    /\ checked = <<>>
    /\ out = <<>>
    /\ exitStatus = -1

\* ------------------------------------------------------------- main()
\* variant: a GetoptError is swallowed and the run goes on without options
main_getopt_ignore_error ==
    /\ pc = "getopt"
    /\ LET r == getopt(argv, <<>>)
       IN  /\ opts' = IF r.err THEN <<>> ELSE r.opts
           /\ pc' = "opts"
           /\ out' = IF r.err THEN Append(out, usage_error) ELSE out
    /\ UNCHANGED <<argv, FS, oi, vcpkg_toolchain, cl_c, cl_cpp, ti, cmake_bin,
                   tests_bin, running, invoked, returned, checked, exitStatus>>

\* variant: a GetoptError ends the process with status 2
main_getopt_exit2 ==
    /\ pc = "getopt"
    /\ LET r == getopt(argv, <<>>)
       IN  IF r.err
           THEN /\ out' = Append(out, usage_error)
                /\ Exit(2)
                /\ UNCHANGED opts
           ELSE /\ opts' = r.opts
                /\ pc' = "opts"
                /\ UNCHANGED <<out, exitStatus>>
    /\ UNCHANGED <<argv, FS, oi, vcpkg_toolchain, cl_c, cl_cpp, ti, cmake_bin,
                   tests_bin, running, invoked, returned, checked>>

\* lines 13-17: parse the command line; GetoptError prints usage, exits 1
main_getopt ==
    /\ pc = "getopt"
    /\ LET r == getopt(argv, <<>>)
       IN  IF r.err
           THEN /\ out' = Append(out, usage_error)
                /\ Exit(1)
                /\ UNCHANGED opts
           ELSE /\ opts' = r.opts
                /\ pc' = "opts"
                /\ UNCHANGED <<out, exitStatus>>
    /\ UNCHANGED <<argv, FS, oi, vcpkg_toolchain, cl_c, cl_cpp, ti, cmake_bin,
                   tests_bin, running, invoked, returned, checked>>

\* variant: '-h' prints the usage text and the loop goes on
main_opt_h_no_exit ==
    /\ pc = "opts"
    /\ oi <= Len(opts)
    /\ opts[oi][1] = <<"-", "h">>
    /\ out' = Append(out, usage_help)
    /\ oi' = oi + 1
    /\ UNCHANGED <<argv, FS, pc, opts, vcpkg_toolchain, cl_c, cl_cpp, ti,
                   cmake_bin, tests_bin, running, invoked, returned, checked,
                   exitStatus>>

\* lines 19-21: opt == '-h' prints the usage text and calls sys.exit()
main_opt_h ==
    /\ pc = "opts"
    /\ oi <= Len(opts)
    /\ opts[oi][1] = <<"-", "h">>
    /\ out' = Append(out, usage_help)
    /\ Exit(0)
    /\ UNCHANGED <<argv, FS, opts, oi, vcpkg_toolchain, cl_c, cl_cpp, ti,
                   cmake_bin, tests_bin, running, invoked, returned, checked>>

\* lines 22-23
main_opt_v ==
    /\ pc = "opts"
    /\ oi <= Len(opts)
    /\ opts[oi][1] # <<"-", "h">>
    /\ opts[oi][1] \in { <<"-", "v">>, <<"-", "-", "vcpkg">> }
    /\ vcpkg_toolchain' = opts[oi][2] \o <<"/vcpkg/scripts/buildsystems/vcpkg.cmake">>
    /\ oi' = oi + 1
    /\ UNCHANGED <<argv, FS, pc, opts, cl_c, cl_cpp, ti, cmake_bin, tests_bin,
                   running, invoked, returned, checked, out, exitStatus>>

\* lines 24-26
main_opt_c ==
    /\ pc = "opts"
    /\ oi <= Len(opts)
    /\ opts[oi][1] # <<"-", "h">>
    /\ opts[oi][1] \notin { <<"-", "v">>, <<"-", "-", "vcpkg">> }
    /\ opts[oi][1] \in { <<"-", "c">>, <<"-", "-", "cl">> }
    /\ cl_c' = opts[oi][2] \o <<"/clang">>
    /\ cl_cpp' = opts[oi][2] \o <<"/clang++">>
    /\ oi' = oi + 1
    /\ UNCHANGED <<argv, FS, pc, opts, vcpkg_toolchain, ti, cmake_bin, tests_bin,
                   running, invoked, returned, checked, out, exitStatus>>

\* line 18: the for loop over opts is exhausted
main_opts_end ==
    /\ pc = "opts"
    /\ oi > Len(opts)
    /\ pc' = "check_vcpkg"
    /\ UNCHANGED <<argv, FS, opts, oi, vcpkg_toolchain, cl_c, cl_cpp, ti,
                   cmake_bin, tests_bin, running, invoked, returned, checked,
                   out, exitStatus>>

\* variant: a missing toolchain file is reported and the run goes on
main_check_vcpkg_no_exit ==
    /\ pc = "check_vcpkg"
    /\ checked' = Append(checked, vcpkg_toolchain)
    /\ out' = IF ~isfile(vcpkg_toolchain)
              THEN Append(out, not_found(vcpkg_toolchain)) ELSE out
    /\ pc' = "check_cl"
    /\ UNCHANGED <<argv, FS, opts, oi, vcpkg_toolchain, cl_c, cl_cpp, ti,
                   cmake_bin, tests_bin, running, invoked, returned, exitStatus>>

\* lines 28-32: the toolchain file must exist
main_check_vcpkg ==
    /\ pc = "check_vcpkg"
    /\ checked' = Append(checked, vcpkg_toolchain)
    /\ IF ~isfile(vcpkg_toolchain)
       THEN /\ out' = Append(out, not_found(vcpkg_toolchain))
            /\ Exit(1)
       ELSE /\ pc' = "check_cl"
            /\ UNCHANGED <<out, exitStatus>>
    /\ UNCHANGED <<argv, FS, opts, oi, vcpkg_toolchain, cl_c, cl_cpp, ti,
                   cmake_bin, tests_bin, running, invoked, returned>>

\* variant: the C++ compiler is tested before the C compiler
main_check_cl_cpp_first ==
    /\ pc = "check_cl"
    /\ checked' = checked \o <<cl_c, cl_cpp>>
    /\ IF ~isfile(cl_cpp)
       THEN /\ out' = Append(out, not_found(cl_cpp))
            /\ Exit(1)
       ELSE IF ~isfile(cl_c)
            THEN /\ out' = Append(out, not_found(cl_c))
                 /\ Exit(1)
       ELSE /\ pc' = "generate"
            /\ UNCHANGED <<out, exitStatus>>
    /\ UNCHANGED <<argv, FS, opts, oi, vcpkg_toolchain, cl_c, cl_cpp, ti,
                   cmake_bin, tests_bin, running, invoked, returned>>

\* variant: an empty compiler path means "use the default compiler"
main_check_cl_default ==
    /\ pc = "check_cl"
    /\ checked' = checked \o <<cl_c, cl_cpp>>
    /\ IF cl_c # <<>> /\ ~isfile(cl_c)
       THEN /\ out' = Append(out, not_found(cl_c))
            /\ Exit(1)
       ELSE IF cl_cpp # <<>> /\ ~isfile(cl_cpp)
            THEN /\ out' = Append(out, not_found(cl_cpp))
                 /\ Exit(1)
       ELSE /\ pc' = "generate"
            /\ UNCHANGED <<out, exitStatus>>
    /\ UNCHANGED <<argv, FS, opts, oi, vcpkg_toolchain, cl_c, cl_cpp, ti,
                   cmake_bin, tests_bin, running, invoked, returned>>

\* lines 34-42: both compilers are looked up, then tested C first, C++ second;
\* main returns and cmake_configure starts
main_check_cl ==
    /\ pc = "check_cl"
    /\ checked' = checked \o <<cl_c, cl_cpp>>
    /\ IF ~isfile(cl_c)
       THEN /\ out' = Append(out, not_found(cl_c))
            /\ Exit(1)
       ELSE IF ~isfile(cl_cpp)
            THEN /\ out' = Append(out, not_found(cl_cpp))
                 /\ Exit(1)
       ELSE /\ pc' = "generate"
            /\ UNCHANGED <<out, exitStatus>>
    /\ UNCHANGED <<argv, FS, opts, oi, vcpkg_toolchain, cl_c, cl_cpp, ti,
                   cmake_bin, tests_bin, running, invoked, returned>>

\* -------------------------------------------------- cmake_configure()
t_cur == targetOrder[ti]

\* lines 52-56: subprocess.run(params) is entered
generate_run ==
    /\ pc = "generate"
    /\ Launch(t_cur, "generate", params(t_cur))
    /\ pc' = "generate_wait"
    /\ UNCHANGED <<argv, FS, opts, oi, vcpkg_toolchain, cl_c, cl_cpp, ti,
                   cmake_bin, tests_bin, returned, checked, out, exitStatus>>

\* variant: a failed generate step is reported and the build step follows
generate_ret_no_exit(rc) ==
    /\ pc = "generate_wait"
    /\ running' = FALSE
    /\ returned' = Append(returned, rc)
    /\ cmake_bin' = rc
    /\ out' = IF rc # 0 THEN Append(out, cmake_failed(rc)) ELSE out
    /\ pc' = "build"
    /\ UNCHANGED <<argv, FS, opts, oi, vcpkg_toolchain, cl_c, cl_cpp, ti,
                   tests_bin, invoked, checked, exitStatus>>

\* variant: a failed generate step is attempted again
generate_ret_retry(rc) ==
    /\ pc = "generate_wait"
    /\ running' = FALSE
    /\ returned' = Append(returned, rc)
    /\ cmake_bin' = rc
    /\ out' = IF rc # 0 THEN Append(out, cmake_failed(rc)) ELSE out
    /\ pc' = IF rc # 0 THEN "generate" ELSE "build"
    /\ UNCHANGED <<argv, FS, opts, oi, vcpkg_toolchain, cl_c, cl_cpp, ti,
                   tests_bin, invoked, checked, exitStatus>>

\* lines 56-59: the generator has terminated with rc
generate_ret(rc) ==
    /\ pc = "generate_wait"
    /\ running' = FALSE
    /\ returned' = Append(returned, rc)
    /\ cmake_bin' = rc
    /\ IF rc # 0
       THEN /\ out' = Append(out, cmake_failed(rc))
            /\ Exit(1)
       ELSE /\ pc' = "build"
            /\ UNCHANGED <<out, exitStatus>>
    /\ UNCHANGED <<argv, FS, opts, oi, vcpkg_toolchain, cl_c, cl_cpp, ti,
                   tests_bin, invoked, checked>>

\* lines 61-62: subprocess.run(compile_params) is entered
build_run ==
    /\ pc = "build"
    /\ Launch(t_cur, "build", compile_params(t_cur))
    /\ pc' = "build_wait"
    /\ UNCHANGED <<argv, FS, opts, oi, vcpkg_toolchain, cl_c, cl_cpp, ti,
                   cmake_bin, tests_bin, returned, checked, out, exitStatus>>

\* variant: a failed build step abandons the configuration, not the run
build_ret_skip_config(rc) ==
    /\ pc = "build_wait"
    /\ running' = FALSE
    /\ returned' = Append(returned, rc)
    /\ cmake_bin' = rc
    /\ IF rc # 0
       THEN /\ out' = Append(out, cmake_failed(rc))
            /\ IF ti < Len(targetOrder)
               THEN /\ ti' = ti + 1
                    /\ pc' = "generate"
                    /\ UNCHANGED exitStatus
               ELSE /\ Exit(1)
                    /\ UNCHANGED ti
       ELSE /\ pc' = "test"
            /\ UNCHANGED <<out, exitStatus, ti>>
    /\ UNCHANGED <<argv, FS, opts, oi, vcpkg_toolchain, cl_c, cl_cpp,
                   tests_bin, invoked, checked>>

\* variant: a failed build step is reported and the tests are run all the same
build_ret_test_anyway(rc) ==
    /\ pc = "build_wait"
    /\ running' = FALSE
    /\ returned' = Append(returned, rc)
    /\ cmake_bin' = rc
    /\ out' = IF rc # 0 THEN Append(out, cmake_failed(rc)) ELSE out
    /\ pc' = "test"
    /\ UNCHANGED <<argv, FS, opts, oi, vcpkg_toolchain, cl_c, cl_cpp, ti,
                   tests_bin, invoked, checked, exitStatus>>

\* lines 62-65: the build has terminated with rc
build_ret(rc) ==
    /\ pc = "build_wait"
    /\ running' = FALSE
    /\ returned' = Append(returned, rc)
    /\ cmake_bin' = rc
    /\ IF rc # 0
       THEN /\ out' = Append(out, cmake_failed(rc))
            /\ Exit(1)
       ELSE /\ pc' = "test"
            /\ UNCHANGED <<out, exitStatus>>
    /\ UNCHANGED <<argv, FS, opts, oi, vcpkg_toolchain, cl_c, cl_cpp, ti,
                   tests_bin, invoked, checked>>

\* variant: the tests are started and not waited for
test_run_nowait ==
    /\ pc = "test"
    /\ out' = Append(out, running_tests(t_cur))
    /\ invoked' = Append(invoked, [cfg |-> t_cur, step |-> "test",
                                   cmd |-> run_tests(t_cur)])
    /\ IF ti < Len(targetOrder)
       THEN /\ ti' = ti + 1
            /\ pc' = "generate"
            /\ UNCHANGED exitStatus
       ELSE /\ Exit(0)
            /\ UNCHANGED ti
    /\ UNCHANGED <<argv, FS, opts, oi, vcpkg_toolchain, cl_c, cl_cpp,
                   cmake_bin, tests_bin, running, returned, checked>>

\* lines 67-70: announce the tests, subprocess.run(run_tests) is entered
test_run ==
    /\ pc = "test"
    /\ out' = Append(out, running_tests(t_cur))
    /\ Launch(t_cur, "test", run_tests(t_cur))
    /\ pc' = "test_wait"
    /\ UNCHANGED <<argv, FS, opts, oi, vcpkg_toolchain, cl_c, cl_cpp, ti,
                   cmake_bin, tests_bin, returned, checked, exitStatus>>

\* variant: a failed test step ends the process like a failed build step
test_ret_abort(rc) ==
    /\ pc = "test_wait"
    /\ running' = FALSE
    /\ returned' = Append(returned, rc)
    /\ tests_bin' = rc
    /\ out' = IF rc # 0 THEN Append(out, tests_failed(t_cur)) ELSE out
    /\ IF rc # 0
       THEN /\ Exit(1)
            /\ UNCHANGED ti
       ELSE IF ti < Len(targetOrder)
            THEN /\ ti' = ti + 1
                 /\ pc' = "generate"
                 /\ UNCHANGED exitStatus
       ELSE /\ Exit(0)
            /\ UNCHANGED ti
    /\ UNCHANGED <<argv, FS, opts, oi, vcpkg_toolchain, cl_c, cl_cpp,
                   cmake_bin, invoked, checked>>

\* variant: the script ends with status 1 when some test step has failed
test_ret_aggregate(rc) ==
    /\ pc = "test_wait"
    /\ running' = FALSE
    /\ returned' = Append(returned, rc)
    /\ tests_bin' = rc
    /\ out' = IF rc # 0 THEN Append(out, tests_failed(t_cur)) ELSE out
    /\ IF ti < Len(targetOrder)
       THEN /\ ti' = ti + 1
            /\ pc' = "generate"
            /\ UNCHANGED exitStatus
       ELSE /\ Exit(IF \E i \in 1..Len(returned') :
                         invoked[i].step = "test" /\ returned'[i] # 0
                    THEN 1 ELSE 0)
            /\ UNCHANGED ti
    /\ UNCHANGED <<argv, FS, opts, oi, vcpkg_toolchain, cl_c, cl_cpp,
                   cmake_bin, invoked, checked>>

\* variant: when the tests of the last configuration fail, all is run again
test_ret_restart(rc) ==
    /\ pc = "test_wait"
    /\ running' = FALSE
    /\ returned' = Append(returned, rc)
    /\ tests_bin' = rc
    /\ out' = IF rc # 0 THEN Append(out, tests_failed(t_cur)) ELSE out
    /\ IF ti < Len(targetOrder)
       THEN /\ ti' = ti + 1
            /\ pc' = "generate"
            /\ UNCHANGED exitStatus
       ELSE IF rc # 0
            THEN /\ ti' = 1
                 /\ pc' = "generate"
                 /\ UNCHANGED exitStatus
       ELSE /\ Exit(0)
            /\ UNCHANGED ti
    /\ UNCHANGED <<argv, FS, opts, oi, vcpkg_toolchain, cl_c, cl_cpp,
                   cmake_bin, invoked, checked>>

\* lines 70-72 and 51: the tests have terminated with rc; a failure is only
\* printed; the loop goes on to the next target, or the script ends (status 0)
test_ret(rc) ==
    /\ pc = "test_wait"
    /\ running' = FALSE
    /\ returned' = Append(returned, rc)
    /\ tests_bin' = rc
    /\ out' = IF rc # 0 THEN Append(out, tests_failed(t_cur)) ELSE out
    /\ IF ti < Len(targetOrder)
       THEN /\ ti' = ti + 1
            /\ pc' = "generate"
            /\ UNCHANGED exitStatus
       ELSE /\ Exit(0)
            /\ UNCHANGED ti
    /\ UNCHANGED <<argv, FS, opts, oi, vcpkg_toolchain, cl_c, cl_cpp,
                   cmake_bin, invoked, checked>>

Next ==
    \/ main_getopt
    \/ main_opt_h
    \/ main_opt_v
    \/ main_opt_c
    \/ main_opts_end
    \/ main_check_vcpkg
    \/ main_check_cl
    \/ generate_run
    \/ \E rc \in RetCodes : generate_ret(rc)
    \/ build_run
    \/ \E rc \in RetCodes : build_ret(rc)
    \/ test_run
    \/ \E rc \in RetCodes : test_ret(rc)

Spec == Init /\ [][Next]_vars

\* every launched process terminates and the interpreter keeps running
FairSpec == Spec /\ WF_vars(Next)

\* ============================================================ properties
\* what the command line parses to
Parsed == getopt(argv, <<>>)

\* getopt rejected the command line
ArgError == Parsed.err

\* getopt accepted the command line and '-h' is one of its options
HelpGiven ==
    /\ ~Parsed.err
    /\ \E i \in 1..Len(Parsed.opts) : Parsed.opts[i][1] = <<"-", "h">>

\* the run gets to the existence checks
ReachesValidation == ~ArgError /\ ~HelpGiven

\* the toolchain file and both compilers passed the existence checks
ValidationPassed ==
    /\ Len(checked) = 3
    /\ \A i \in 1..3 : isfile(checked[i])

Finished(i) == i \in 1..Len(returned)
CfgIndex(t) == CHOOSE k \in 1..Len(targetOrder) : targetOrder[k] = t

\* no generate or build step has returned non-zero so far
NoFatalStep ==
    \A i \in 1..Len(returned) :
        invoked[i].step \in {"generate", "build"} => returned[i] = 0

\* nothing was launched after command i, and nothing of a later configuration
NothingAfter(i) ==
    /\ Len(invoked) = i
    /\ \A j \in 1..Len(invoked) :
           CfgIndex(invoked[j].cfg) <= CfgIndex(invoked[i].cfg)

\* C1: once the generate step of a configuration (the first or the second)
\* has returned non-zero, the process has exited with a non-zero status and
\* no build step or test step of that configuration and no step of a later
\* configuration is ever launched.
C1_GenerateFailureAborts ==
    \A i \in 1..Len(returned) :
        (invoked[i].step = "generate" /\ returned[i] # 0) =>
            /\ pc = "done"
            /\ exitStatus # 0
            /\ NothingAfter(i)
            /\ \A j \in 1..Len(invoked) :
                   invoked[j].cfg = invoked[i].cfg => invoked[j].step = "generate"

\* the generate step of the second configuration has failed
C1_Witness ==
    /\ pc = "done"
    /\ Len(returned) = 4
    /\ invoked[4].cfg = "Debug" /\ invoked[4].step = "generate"
    /\ returned[4] # 0
    /\ exitStatus = 1

\* C2: once the build step of a configuration has returned non-zero, the
\* process has exited with a non-zero status, the test step of that
\* configuration is never launched and neither is any step of a later
\* configuration (the abort covers the whole run).
C2_BuildFailureAborts ==
    \A i \in 1..Len(returned) :
        (invoked[i].step = "build" /\ returned[i] # 0) =>
            /\ pc = "done"
            /\ exitStatus # 0
            /\ NothingAfter(i)
            /\ \A j \in 1..Len(invoked) :
                   /\ invoked[j].step = "test" => invoked[j].cfg # invoked[i].cfg
                   /\ invoked[i].cfg = "Release" => invoked[j].cfg # "Debug"

\* the build step of the first configuration has failed
C2_Witness ==
    /\ pc = "done"
    /\ Len(returned) = 2
    /\ invoked[2].cfg = "Release" /\ invoked[2].step = "build"
    /\ returned[2] # 0
    /\ exitStatus = 1

\* the steps of configuration t that have been launched, in order
StepsOf(t) ==
    LET idx == { j \in 1..Len(invoked) : invoked[j].cfg = t }
    IN  [k \in 1..Cardinality(idx) |->
            invoked[CHOOSE j \in idx :
                        Cardinality({ m \in idx : m < j }) = k - 1].step]

\* line i of the output is the test-failure diagnostic of configuration t
Reported(t) == \E k \in 1..Len(out) : out[k] = tests_failed(t)

\* C3: when the test step of a configuration returns non-zero the failure
\* is printed and the process does not exit on it; if no generate or build
\* step fails in the run, the generate, build and test steps of the next
\* configuration are all launched.
C3_TestFailureContinues ==
    \A i \in 1..Len(returned) :
        (invoked[i].step = "test" /\ returned[i] # 0) =>
            /\ Reported(invoked[i].cfg)
            /\ CfgIndex(invoked[i].cfg) < Len(targetOrder) =>
                   /\ Len(invoked) = i => pc = "generate"
                   /\ (pc = "done" /\ NoFatalStep) =>
                          StepsOf(targetOrder[CfgIndex(invoked[i].cfg) + 1])
                              = <<"generate", "build", "test">>

\* the Release tests failed and the Debug steps were all run
C3_Witness ==
    /\ pc = "done"
    /\ Len(returned) = 6
    /\ invoked[3].cfg = "Release" /\ invoked[3].step = "test"
    /\ returned[3] # 0
    /\ NoFatalStep
    /\ StepsOf("Debug") = <<"generate", "build", "test">>

\* C4: whatever the test steps return, a run whose paths passed validation
\* and whose generate and build steps all returned 0 exits with status 0.
C4_TestsDoNotChangeExit ==
    (pc = "done" /\ ValidationPassed /\ NoFatalStep) =>
        /\ exitStatus = 0
        /\ Len(returned) = 6

\* both test steps failed and the exit status is 0
C4_Witness ==
    /\ pc = "done"
    /\ ValidationPassed
    /\ NoFatalStep
    /\ Len(returned) = 6
    /\ returned[3] # 0 /\ returned[6] # 0
    /\ exitStatus = 0

\* C5: in every run that gets to the existence checks, whatever base path
\* was supplied, a derived toolchain file that does not exist makes the
\* process exit with a non-zero status, and no external command is ever
\* launched while the toolchain file is missing.
C5_MissingToolchainFile ==
    /\ invoked # <<>> => isfile(vcpkg_toolchain)
    /\ (pc = "done" /\ ReachesValidation /\ ~isfile(vcpkg_toolchain)) =>
           /\ exitStatus # 0
           /\ invoked = <<>>
           /\ checked # <<>> /\ checked[1] = vcpkg_toolchain

\* a base path was supplied, its toolchain file is missing, the run is over
C5_Witness ==
    /\ pc = "done"
    /\ ReachesValidation
    /\ vcpkg_toolchain # <<>>
    /\ ~isfile(vcpkg_toolchain)
    /\ exitStatus = 1
    /\ invoked = <<>>

\* the paths in validation order, and the first of them that is missing
ValidationOrder == <<vcpkg_toolchain, cl_c, cl_cpp>>
SomeMissing == \E k \in 1..3 : ~isfile(ValidationOrder[k])
FirstMissing ==
    ValidationOrder[CHOOSE k \in 1..3 :
        /\ ~isfile(ValidationOrder[k])
        /\ \A m \in 1..(k - 1) : isfile(ValidationOrder[m])]

\* C6: in every run that gets to the existence checks, a missing C or C++
\* compiler makes the process exit with a non-zero status before any external
\* command is launched; exactly one missing-path line is printed, naming the
\* first missing path in the order toolchain file, C compiler, C++ compiler.
C6_MissingCompilerOrder ==
    /\ invoked # <<>> => isfile(cl_c) /\ isfile(cl_cpp)
    /\ (pc = "done" /\ ReachesValidation /\ SomeMissing) =>
           /\ exitStatus # 0
           /\ invoked = <<>>
           /\ out = << not_found(FirstMissing) >>

\* the toolchain file exists, both compilers are missing, the C one is named
C6_Witness ==
    /\ pc = "done"
    /\ ReachesValidation
    /\ isfile(vcpkg_toolchain)
    /\ cl_c # <<>>
    /\ ~isfile(cl_c) /\ ~isfile(cl_cpp)
    /\ out = << not_found(cl_c) >>
    /\ exitStatus = 1

\* some token of the command line is '-h'
ContainsH == \E i \in 1..Len(argv) : argv[i] = <<"-", "h">>

\* C7 as stated: every command line that contains -h ends with the usage
\* message and status 0, with no existence check and no external command.
C7_Original ==
    (pc = "done" /\ ContainsH) =>
        /\ out = << usage_help >>
        /\ exitStatus = 0
        /\ checked = <<>>
        /\ invoked = <<>>

\* C7 (amended): every command line that getopt accepts and in which -h is
\* parsed as an option, whatever options come before or after it, ends with
\* the usage message and status 0; no existence check is made and no external
\* command is launched at any point of such a run.
C7_HelpExitsZero ==
    HelpGiven =>
        /\ checked = <<>>
        /\ invoked = <<>>
        /\ pc = "done" => out = << usage_help >> /\ exitStatus = 0

\* -h came after a -v option that had already been applied
C7_Witness ==
    /\ pc = "done"
    /\ HelpGiven
    /\ vcpkg_toolchain # <<>>
    /\ out = << usage_help >>
    /\ exitStatus = 0

\* C8: a command line on which getopt meets an unknown option name or a
\* -v/-c/--vcpkg/--cl without its argument ends with the usage message and
\* status 1, with no existence check and no external command; positional
\* arguments are not interpreted (a command line that starts with one sets
\* no path).
C8_ArgumentError ==
    /\ ArgError =>
           /\ checked = <<>>
           /\ invoked = <<>>
           /\ pc = "done" => out = << usage_error >> /\ exitStatus = 1
    /\ (argv # <<>> /\ argv[1][1] # "-") =>
           vcpkg_toolchain = <<>> /\ cl_c = <<>> /\ cl_cpp = <<>>

\* an option without its argument followed valid ones; the run is over
C8_Witness ==
    /\ pc = "done"
    /\ ArgError
    /\ Len(argv) > 1
    /\ argv[Len(argv)] = <<"-", "c">>
    /\ out = << usage_error >>
    /\ exitStatus = 1

\* a generate or build step has returned non-zero
FatalStep == ~NoFatalStep

\* an existence check was made and failed
MissingPath == \E k \in 1..Len(checked) : ~isfile(checked[k])

\* C9: a finished run has status 0 or 1; it is 1 exactly when there was an
\* argument error, a missing toolchain file or compiler, or a generate or
\* build step that returned non-zero, and 0 exactly on help or when all
\* generate and build steps of both configurations returned 0.
C9_ExitStatus ==
    pc = "done" =>
        /\ exitStatus \in {0, 1}
        /\ exitStatus = 1 <=> (ArgError \/ MissingPath \/ FatalStep)
        /\ exitStatus = 0 <=> (HelpGiven \/ (Len(returned) = 6 /\ NoFatalStep))

\* the run ended on an argument error
C9_Witness ==
    /\ pc = "done"
    /\ ArgError
    /\ exitStatus = 1

\* command cmd has the chunk d somewhere in its arguments
Mentions(cmd, d) ==
    \E i \in 1..Len(cmd) : \E j \in 1..Len(cmd[i]) : cmd[i][j] = d

OtherCfg(t) == IF t = "Release" THEN "Debug" ELSE "Release"

\* C10: the two configurations have different output directories; every
\* command launched for a configuration names that configuration's directory
\* and not the other's; with valid paths and no failed generate or build
\* step the run processes Release and then Debug, three steps each.
C10_TwoConfigurations ==
    /\ targets["Release"] # targets["Debug"]
    /\ \A i \in 1..Len(invoked) :
           /\ invoked[i].cfg \in {"Release", "Debug"}
           /\ Mentions(invoked[i].cmd, targets[invoked[i].cfg][1])
           /\ ~Mentions(invoked[i].cmd, targets[OtherCfg(invoked[i].cfg)][1])
           /\ invoked[i].step = "generate" =>
                  invoked[i].cmd[2] = <<"-DCMAKE_BUILD_TYPE=", invoked[i].cfg>>
    /\ (pc = "done" /\ ValidationPassed /\ NoFatalStep) =>
           /\ Len(invoked) = 6
           /\ StepsOf("Release") = <<"generate", "build", "test">>
           /\ StepsOf("Debug") = <<"generate", "build", "test">>
           /\ \A i \in 1..3 : invoked[i].cfg = "Release"

\* a whole run: six commands, the last one the Debug tests in ../build/debug
C10_Witness ==
    /\ pc = "done"
    /\ ValidationPassed
    /\ Len(invoked) = 6
    /\ invoked[5].cfg = "Debug" /\ invoked[5].step = "build"
    /\ invoked[5].cmd[3] = <<"../build/debug">>
    /\ invoked[6].cmd = << <<"../build/debug", "/test/memtests">> >>


\* every command launched so far has returned 0
AllZero == \A i \in 1..Len(returned) : returned[i] = 0

\* C11: when the toolchain file and both compilers exist and the generate,
\* build and test steps of both configurations all return 0, the process
\* exits with status 0 after exactly six external commands and has printed
\* one "Running Release tests..." line and one "Running Debug tests..." line.
C11_FullSuccessfulRun ==
    (pc = "done" /\ ValidationPassed /\ AllZero) =>
        /\ exitStatus = 0
        /\ Len(invoked) = 6 /\ Len(returned) = 6
        /\ out = << <<"Running ", "Release", " tests...">>,
                    <<"Running ", "Debug", " tests...">> >>

\* a run with valid paths in which all six commands returned 0
C11_Witness ==
    /\ pc = "done"
    /\ ValidationPassed
    /\ Len(returned) = 6
    /\ AllZero
    /\ exitStatus = 0

\* C12 as stated: the line printed for a failed test step has the name of
\* the configuration ('Release' or 'Debug') in it.
C12_DiagnosticNamesConfiguration ==
    \A i \in 1..Len(returned) :
        (invoked[i].step = "test" /\ returned[i] # 0) =>
            \E k \in 1..Len(out) :
                /\ out[k][Len(out[k])] = " tests failed"
                /\ \E j \in 1..Len(out[k]) : out[k][j] = invoked[i].cfg


Sequence == <<"generate", "build", "test">>

\* C13: in each configuration the steps launched so far are a prefix of
\* generate, build, test, so each is launched at most once and none is
\* repeated after a failure; a build step is launched only after the generate
\* step of its configuration has returned (with 0), a test step only after
\* the build step of its configuration has returned (with 0).
C13_LinearNoRetry ==
    /\ \A t \in {"Release", "Debug"} : IsPrefix(StepsOf(t), Sequence)
    /\ \A i \in 1..Len(invoked) :
           invoked[i].step \in {"build", "test"} =>
               /\ i > 1
               /\ invoked[i - 1].cfg = invoked[i].cfg
               /\ invoked[i - 1].step =
                      (IF invoked[i].step = "build" THEN "generate" ELSE "build")
               /\ Len(returned) >= i - 1
               /\ returned[i - 1] = 0
    /\ \A i \in 1..Len(returned) : \A j \in 1..Len(invoked) :
           (returned[i] # 0 /\ j # i) =>
               ~(invoked[j].cfg = invoked[i].cfg /\ invoked[j].step = invoked[i].step)

\* the run is over, a generate step failed in the second configuration after
\* a failed test step in the first, and neither was launched again
C13_Witness ==
    /\ pc = "done"
    /\ Len(returned) = 4
    /\ returned[3] # 0 /\ returned[4] # 0
    /\ StepsOf("Release") = Sequence
    /\ StepsOf("Debug") = <<"generate">>

\* the commands launched and not yet returned
Outstanding == Len(invoked) - Len(returned)

\* C14: at most one external process is outstanding at any moment, the
\* interpreter is in the matching wait while it is, Release is processed
\* before Debug, and no Debug step is launched before the Release test step
\* has returned.
C14_StrictlySequential ==
    /\ Outstanding \in {0, 1}
    /\ running <=> Outstanding = 1
    /\ running <=> pc \in {"generate_wait", "build_wait", "test_wait"}
    /\ \A i \in 1..Len(invoked) : \A j \in 1..Len(invoked) :
           (invoked[i].cfg = "Release" /\ invoked[j].cfg = "Debug") => i < j
    /\ \A j \in 1..Len(invoked) :
           invoked[j].cfg = "Debug" =>
               /\ j > 3
               /\ invoked[3].cfg = "Release" /\ invoked[3].step = "test"
               /\ Len(returned) >= 3

\* the Debug generate step is outstanding, after the Release tests returned
C14_Witness ==
    /\ pc = "generate_wait"
    /\ running
    /\ Len(invoked) = 4 /\ Len(returned) = 3
    /\ invoked[4].cfg = "Debug"


\* the three paths a generate command was given
PathsOf(cmd) == <<cmd[8], cmd[4], cmd[5]>>

\* C15: the three paths are set before the existence checks and never
\* change afterwards; whenever a command has been launched the paths are the
\* ones that were checked and found to exist, and every generate command
\* (of either configuration) was given exactly these three paths.
C15_ToolchainConfigFixed ==
    /\ checked # <<>> => checked[1] = vcpkg_toolchain
    /\ Len(checked) = 3 => checked = <<vcpkg_toolchain, cl_c, cl_cpp>>
    /\ invoked # <<>> =>
           /\ checked = <<vcpkg_toolchain, cl_c, cl_cpp>>
           /\ \A k \in 1..3 : isfile(checked[k])
    /\ \A i \in 1..Len(invoked) :
           invoked[i].step = "generate" =>
               PathsOf(invoked[i].cmd) =
                   << <<"-DCMAKE_TOOLCHAIN_FILE=">> \o checked[1],
                      <<"-DCMAKE_C_COMPILER=">> \o checked[2],
                      <<"-DCMAKE_CXX_COMPILER=">> \o checked[3] >>
    /\ \A i \in 1..Len(invoked) : \A j \in 1..Len(invoked) :
           (invoked[i].step = "generate" /\ invoked[j].step = "generate") =>
               PathsOf(invoked[i].cmd) = PathsOf(invoked[j].cmd)

\* both generate commands have been launched
C15_Witness ==
    /\ Len(invoked) >= 4
    /\ invoked[1].step = "generate" /\ invoked[4].step = "generate"
    /\ invoked[1].cfg # invoked[4].cfg
    /\ PathsOf(invoked[4].cmd) = PathsOf(invoked[1].cmd)
    /\ invoked[4].cmd[4] = <<"-DCMAKE_C_COMPILER=", "A", "/clang">>

\* command number i is step s of configuration t
IsStep(i, t, s) == invoked[i].cfg = t /\ invoked[i].step = s

\* the test executable of t was launched / its announcement was printed
TestLaunched(t) == \E i \in 1..Len(invoked) : IsStep(i, t, "test")
Announced(t) == \E k \in 1..Len(out) : out[k] = running_tests(t)

\* the generate and build steps of t and of the configurations before it
\* have all returned 0
BuiltUpTo(t) ==
    \A k \in 1..CfgIndex(t) : \A s \in {"generate", "build"} :
        \E i \in 1..Len(returned) : IsStep(i, targetOrder[k], s) /\ returned[i] = 0

\* C16: the test executable of a configuration is launched, and its
\* "Running <name> tests..." line printed, only when path validation passed
\* and the generate and build steps of that and of all earlier configurations
\* returned 0; a run in which they did always launches it, whatever the
\* tests of an earlier configuration returned.
C16_TestRunsIffBuilt ==
    \A t \in {"Release", "Debug"} :
        /\ TestLaunched(t) <=> Announced(t)
        /\ TestLaunched(t) => ValidationPassed /\ BuiltUpTo(t)
        /\ (pc = "done" /\ ValidationPassed /\ BuiltUpTo(t)) => TestLaunched(t)

\* the Release tests failed and the Debug tests were launched
C16_Witness ==
    /\ pc = "done"
    /\ Len(returned) = 6
    /\ IsStep(3, "Release", "test") /\ returned[3] # 0
    /\ TestLaunched("Debug") /\ Announced("Debug")


\* the accepted command line has no -v/--vcpkg, respectively no -c/--cl
NoVcpkgOption ==
    \A i \in 1..Len(Parsed.opts) :
        Parsed.opts[i][1] \notin { <<"-", "v">>, <<"-", "-", "vcpkg">> }
NoClOption ==
    \A i \in 1..Len(Parsed.opts) :
        Parsed.opts[i][1] \notin { <<"-", "c">>, <<"-", "-", "cl">> }

\* C17: in a run that gets to the existence checks, a command line without
\* -v/--vcpkg leaves the toolchain path empty and the run ends on the
\* toolchain check with the missing-path line for '' and status 1; one
\* without -c/--cl, with an existing toolchain file, ends on the compiler
\* check with the missing-path line for the empty C compiler path and status
\* 1; in both cases it is not an argument error and nothing is launched.
C17_OmittedOptionIsMissingPath ==
    /\ (ReachesValidation /\ NoVcpkgOption) =>
           /\ vcpkg_toolchain = <<>>
           /\ invoked = <<>>
           /\ pc = "done" =>
                  /\ checked = << <<>> >>
                  /\ out = << <<" could not be found">> >>
                  /\ exitStatus = 1
    /\ (ReachesValidation /\ NoClOption) =>
           /\ cl_c = <<>> /\ cl_cpp = <<>>
           /\ invoked = <<>>
           /\ (pc = "done" /\ isfile(vcpkg_toolchain)) =>
                  /\ checked = << vcpkg_toolchain, <<>>, <<>> >>
                  /\ out = << <<" could not be found">> >>
                  /\ exitStatus = 1

\* -v names an existing toolchain file, -c is omitted, the run is over
C17_Witness ==
    /\ pc = "done"
    /\ ReachesValidation
    /\ NoClOption
    /\ isfile(vcpkg_toolchain)
    /\ Len(checked) = 3
    /\ out = << not_found(cl_c) >>
    /\ exitStatus = 1
    /\ invoked = <<>>

\* C18: when every launched process terminates the run ends; no run launches
\* more than six commands, at most one generate, build and test step per
\* configuration; once the process has exited nothing more is launched.
C18_TerminatesAtMostSix ==
    /\ <>(pc = "done")
    /\ [](/\ Len(invoked) <= 6
          /\ \A i \in 1..Len(invoked) : \A j \in 1..Len(invoked) :
                 (IsStep(j, invoked[i].cfg, invoked[i].step)) => i = j)
    /\ [][pc = "done" => (invoked' = invoked /\ pc' = "done")]_vars

\* the process has exited after six commands
C18_Witness ==
    /\ pc = "done"
    /\ exitStatus = 0
    /\ Len(invoked) = 6
    /\ ~running

====
